---------------------------- MODULE Spec2Model ----------------------------
(***************************************************************************)
(* A model of JS-Swarm (src/swarming.js): the Vector arithmetic, Biod and  *)
(* Predator steering and movement, Emitter force application, the per-tick *)
(* phases of Flock.prototype.update and the mouse/keyboard handlers.       *)
(*                                                                         *)
(* Numbers.  The program computes in IEEE doubles; the model computes in   *)
(* integers:                                                               *)
(*   - positions, radii, speeds and strengths are whole pixels/units;      *)
(*   - unit vectors (headings, directions) and the force vectors that are  *)
(*     built from them are fixed-point with Unit = 100 steps per 1.0;      *)
(*   - angles are whole degrees; Math.cos/Math.sin are a table in half     *)
(*     degrees, Math.atan2 is the inverse lookup in that table;            *)
(*   - comparisons of distances are made on the exact squared distances.   *)
(* Rounding of doubles is therefore not modelled; everything else (the     *)
(* order of operations, the truncating % of JavaScript, atan2(0,0) = 0,    *)
(* the operators as they are written in the source) is.                    *)
(***************************************************************************)
EXTENDS Integers, Sequences, FiniteSets, TLC

(***************************************************************************)
(* Integer helpers.                                                        *)
(***************************************************************************)
Abs(a) == IF a < 0 THEN -a ELSE a

Max(a, b) == IF a >= b THEN a ELSE b

Min(a, b) == IF a <= b THEN a ELSE b

\* a / b for b > 0, rounded to the nearest integer (half away from zero).
RDiv(a, b) == IF a >= 0 THEN (2 * a + b) \div (2 * b)
              ELSE -((2 * (-a) + b) \div (2 * b))

\* JavaScript's a % n for n > 0: the remainder carries the sign of a.
JsMod(a, n) == IF a >= 0 THEN a % n ELSE -((-a) % n)

RECURSIVE SqrtFrom(_, _)
\* Heron's iteration downwards from an x >= sqrt(n), n > 0.
SqrtFrom(n, x) ==
    LET step(y) == IF y >= x THEN x ELSE SqrtFrom(n, y)
    IN  step((x + n \div x) \div 2)

\* Math.sqrt, rounded down to an integer (0 <= n < 2^31).
Sqrt(n) ==
    IF n = 0 THEN 0
    ELSE SqrtFrom(n, IF n < 1024 THEN 32 ELSE IF n < 1048576 THEN 1024 ELSE 46341)

\* Math.sqrt, rounded to the nearest integer.
SqrtNearest(n) ==
    LET nearest(r) == IF n - r * r > r THEN r + 1 ELSE r
    IN  nearest(Sqrt(n))

(***************************************************************************)
(* Trigonometry: sin in half degrees, scaled by 10000.                     *)
(***************************************************************************)
SinTab == <<
    0, 87, 175, 262, 349, 436, 523, 610, 698, 785, 872, 958,
    1045, 1132, 1219, 1305, 1392, 1478, 1564, 1650, 1736, 1822, 1908, 1994,
    2079, 2164, 2250, 2334, 2419, 2504, 2588, 2672, 2756, 2840, 2924, 3007,
    3090, 3173, 3256, 3338, 3420, 3502, 3584, 3665, 3746, 3827, 3907, 3987,
    4067, 4147, 4226, 4305, 4384, 4462, 4540, 4617, 4695, 4772, 4848, 4924,
    5000, 5075, 5150, 5225, 5299, 5373, 5446, 5519, 5592, 5664, 5736, 5807,
    5878, 5948, 6018, 6088, 6157, 6225, 6293, 6361, 6428, 6494, 6561, 6626,
    6691, 6756, 6820, 6884, 6947, 7009, 7071, 7133, 7193, 7254, 7314, 7373,
    7431, 7490, 7547, 7604, 7660, 7716, 7771, 7826, 7880, 7934, 7986, 8039,
    8090, 8141, 8192, 8241, 8290, 8339, 8387, 8434, 8480, 8526, 8572, 8616,
    8660, 8704, 8746, 8788, 8829, 8870, 8910, 8949, 8988, 9026, 9063, 9100,
    9135, 9171, 9205, 9239, 9272, 9304, 9336, 9367, 9397, 9426, 9455, 9483,
    9511, 9537, 9563, 9588, 9613, 9636, 9659, 9681, 9703, 9724, 9744, 9763,
    9781, 9799, 9816, 9833, 9848, 9863, 9877, 9890, 9903, 9914, 9925, 9936,
    9945, 9954, 9962, 9969, 9976, 9981, 9986, 9990, 9994, 9997, 9998, 10000,
    10000 >>

\* 10000 * sin(h / 2 degrees), any integer h.
SinHalf(h) ==
    LET entry(k) == IF k <= 180 THEN SinTab[k + 1]
                    ELSE IF k <= 360 THEN SinTab[361 - k]
                    ELSE IF k <= 540 THEN -SinTab[k - 359]
                    ELSE -SinTab[721 - k]
    IN  entry(h % 720)

CosHalf(h) == SinHalf(h + 180)

\* Math.cos(t) > 0 for t in fixed point (Unit steps per radian):
\* |t| mod 2 pi lies below pi/2 or above 3 pi/2.  pi = 3.14159.
cosIsPositive(t) ==
    LET positiveAt(a) == a < 157080 \/ a > 471239
    IN  positiveAt((Abs(t) * 1000) % 628319)

(***************************************************************************)
(* Vector (src/swarming.js 66-146).  A vector is a pair <<x, y>>.          *)
(***************************************************************************)
\* Steps per 1.0 of a fixed-point vector component.
Unit == 100

Zero == <<0, 0>>

add(v, amount) == <<v[1] + amount[1], v[2] + amount[2]>>

sub(v, amount) == <<v[1] - amount[1], v[2] - amount[2]>>

\* v.scale(amount) for a fixed-point v and a whole amount.
scale(v, amount) == <<v[1] * amount, v[2] * amount>>

\* The vector brought into a range where its squared length fits 31 bits and
\* its length is known to four digits; the direction is kept.
Ranged(v) ==
    LET shrunk(q) == <<RDiv(v[1], q), RDiv(v[2], q)>>
        grown(k)  == <<v[1] * k, v[2] * k>>
        ranged(m) == IF m = 0 THEN v
                     ELSE IF m > 30000 THEN shrunk((m \div 30000) + 1)
                     ELSE IF m < 3000 THEN grown(30000 \div m)
                     ELSE v
    IN  ranged(Max(Abs(v[1]), Abs(v[2])))

\* v.normalize(): a vector of length 1.0 (Unit), or v itself when its length is 0.
normalize(v) ==
    LET divided(w, len) ==
            IF len # 0 THEN <<RDiv(w[1] * Unit, len), RDiv(w[2] * Unit, len)>> ELSE v
        normalized(w) == divided(w, SqrtNearest(w[1] * w[1] + w[2] * w[2]))
    IN  normalized(Ranged(v))

\* The squared distance of two positions (exact).
Dist2(p, q) == (q[1] - p[1]) * (q[1] - p[1]) + (q[2] - p[2]) * (q[2] - p[2])

\* p.getDistance(point) in whole pixels, rounded down.
getDistance(p, point) == Sqrt(Dist2(p, point))

\* p.getDirectionTo(point): fixed-point unit vector, Zero when point = p.
getDirectionTo(p, point) == normalize(sub(point, p))

\* The vector that fromDegrees(degrees) stores: (cos, sin) of the angle.
fromDegrees(degrees) ==
    <<RDiv(CosHalf(2 * degrees), 10000 \div Unit),
      RDiv(SinHalf(2 * degrees), 10000 \div Unit)>>

\* The cross product of the table direction at half degree h with v: positive
\* when v lies counter-clockwise of that direction.
CrossHalf(h, v) == CosHalf(h) * v[2] - SinHalf(h) * v[1]

RECURSIVE FirstDegree(_, _, _)
\* The least d in lo..hi for which v lies clockwise of d + 0.5 degrees (the
\* angles of lo..hi are within a quarter turn, v is before hi + 0.5).
FirstDegree(v, lo, hi) ==
    IF lo >= hi THEN lo
    ELSE LET halved(mid) == IF CrossHalf(2 * mid + 1, v) < 0
                            THEN FirstDegree(v, lo, mid)
                            ELSE FirstDegree(v, mid + 1, hi)
         IN  halved((lo + hi) \div 2)

\* v.toDegrees(): Math.atan2(y, x) brought into [0, 360), to the nearest whole
\* degree (359.5 and above is 0).  Math.atan2(0, 0) is 0.
toDegrees(v) ==
    IF v = Zero THEN 0
    ELSE LET quadrant(w) == IF w[1] > 0 /\ w[2] >= 0 THEN 0
                            ELSE IF w[1] <= 0 /\ w[2] > 0 THEN 90
                            ELSE IF w[1] < 0 /\ w[2] <= 0 THEN 180
                            ELSE 270
             within(w, q) == FirstDegree(w, q, q + 90) % 360
             degrees(w)   == within(w, quadrant(w))
         IN  degrees(Ranged(v))

\* v.dot(vector) as written at line 122: x * x' + y + y'  (fixed point).
dot(v, vector) == RDiv(v[1] * vector[1], Unit) + v[2] + vector[2]

\* The dot product of two fixed-point vectors, x * x' + y * y'.
TrueDot(v, w) == RDiv(v[1] * w[1] + v[2] * w[2], Unit)

(***************************************************************************)
(* Program constants (the arguments of the constructors).                  *)
(***************************************************************************)
SandboxX == 800

SandboxY == 600

sandboxDimensions == <<SandboxX, SandboxY>>

numBiods == 50

BiodSpeed == 3

BiodTurnSpeed == 10

BiodRadius == 7

BiodProximityRadius == 40

BiodSightRadius == 200

BiodClaustrophobicSeverity == 20

PredatorSpeed == 10

PredatorTurnSpeed == 12

PredatorRadius == 10

PredatorSightRadius == 200

PredatorScariness == 40000

PredatorPresence == 200

MouseStrength == 4000

MouseRadius == 200

\* The "cheat" added to the crowding force of an overlapping neighbor.
OverlapPenalty == 1000000

(***************************************************************************)
(* Biod.prototype.move / Predator.prototype.move (the two bodies are the   *)
(* same text up to the emitter update of the predator).                    *)
(***************************************************************************)
\* A turn onto the new heading along the shorter arc, whatever its size.
rotationUncapped(newAngle, currentAngle, turnSpeed) ==
    LET whole(left, right) == IF left < right THEN left ELSE -right
    IN  whole(JsMod(newAngle - currentAngle + 360, 360),
              JsMod(currentAngle - newAngle + 360, 360))

\* left/right and the capped turn of lines 205-209 (789-793).
rotationAmount(newAngle, currentAngle, turnSpeed) ==
    LET capped(left, right) ==
            IF left < right THEN Min(turnSpeed, left) ELSE -Min(turnSpeed, right)
    IN  capped(JsMod(newAngle - currentAngle + 360, 360),
               JsMod(currentAngle - newAngle + 360, 360))

\* The heading after the turn of lines 201-212 (785-796).
turnedHeading(heading, newHeading, turnSpeed) ==
    LET turned(newAngle, currentAngle) ==
            fromDegrees(JsMod(currentAngle
                              + rotationAmount(newAngle, currentAngle, turnSpeed)
                              + 360, 360))
    IN  turned(toDegrees(newHeading), toDegrees(heading))

\* One coordinate after lines 216-221 (800-805): advance, %, and the wrap.
wrapCoordinate(x, offset, dimension) ==
    LET wrapped(moved) == IF moved < 0 THEN dimension ELSE moved
    IN  wrapped(JsMod(x + offset, dimension))

\* The position after lines 215-221 (799-805) with the new heading.
movedPosition(position, heading, speed, dims) ==
    LET advanced(positionOffset) ==
            <<wrapCoordinate(position[1], RDiv(positionOffset[1], Unit), dims[1]),
              wrapCoordinate(position[2], RDiv(positionOffset[2], Unit), dims[2])>>
    IN  advanced(scale(heading, speed))

\* Biod.prototype.move(newHeading): the biod with its heading and position updated.
BiodMove(b, newHeading) ==
    LET moved(h) ==
            [b EXCEPT !.heading = h,
                      !.position = movedPosition(b.position, h, BiodSpeed, sandboxDimensions)]
    IN  moved(turnedHeading(b.heading, newHeading, BiodTurnSpeed))

(***************************************************************************)
(* Biod.prototype.calculateNewHeading (228-328).  A biod is a record       *)
(* [id, position, heading, emitterInfluences]; id stands for the identity  *)
(* of the JavaScript object.  majorInfluence (289-311) is a label for the  *)
(* renderer, read by nothing in the simulation, and is left out.           *)
(***************************************************************************)
RECURSIVE SumVectors(_)
SumVectors(s) == IF s = <<>> THEN Zero ELSE add(Head(s), SumVectors(Tail(s)))

\* The test of line 241 for flock member o seen from biod b.
isNeighbor(b, o) ==
    /\ Dist2(o.position, b.position) <= BiodSightRadius * BiodSightRadius
    /\ o.id # b.id
    /\ cosIsPositive(dot(b.heading, getDirectionTo(b.position, o.position)))

\* The neighbors array built by the loop of lines 236-243, in flock order.
neighborsOf(b, flock) == SelectSeq(flock, LAMBDA o : isNeighbor(b, o))

\* Line 248: the neighbor is within the proximity radius.
isCrowding(b, n) ==
    Dist2(n.position, b.position) <= BiodProximityRadius * BiodProximityRadius

\* Lines 251-255: proximityPoint is the unit direction to the neighbor (the
\* scaled copy of line 252 is dropped), and dist is the distance from the
\* neighbor's position to that point.  In tenths of a pixel.
crowdingDist10(b, n) ==
    LET length(dx, dy) == Sqrt(dx * dx + dy * dy)
        dist(proximityPoint) ==
            length(n.position[1] * 10 - RDiv(proximityPoint[1] * 10, Unit),
                   n.position[2] * 10 - RDiv(proximityPoint[2] * 10, Unit))
    IN  dist(getDirectionTo(b.position, n.position))

\* Lines 256-260: the force of one crowding neighbor.
crowdingForce(b, n) ==
    LET cheated(dist10, force) ==
            IF dist10 < 10 * BiodRadius + BiodRadius
            THEN force + OverlapPenalty
            ELSE force
        forceAt(dist10) ==
            cheated(dist10, RDiv(dist10 * BiodClaustrophobicSeverity, 10))
    IN  forceAt(crowdingDist10(b, n))

\* Lines 246-273: the summed and averaged repulsion.
claustrophobiaOf(b, neighbors) ==
    LET push(n) ==
            scale(getDirectionTo(n.position, b.position), crowdingForce(b, n))
        averaged(claustrophobia, claustroCount) ==
            <<IF claustrophobia[1] # 0
              THEN RDiv(claustrophobia[1], claustroCount) ELSE 0,
              IF claustrophobia[2] # 0
              THEN RDiv(claustrophobia[2], claustroCount) ELSE 0>>
        repulsion(crowd) ==
            averaged(SumVectors([k \in 1..Len(crowd) |-> push(crowd[k])]),
                     Len(crowd))
    IN  repulsion(SelectSeq(neighbors, LAMBDA n : isCrowding(b, n)))

\* Lines 267, 276: the normalized sum of the neighbors' headings.
avgHeadingOf(neighbors) ==
    normalize(SumVectors([k \in 1..Len(neighbors) |-> neighbors[k].heading]))

\* Lines 268, 279-281: the direction to the average position of the neighbors.
\* With no neighbor the average stays (0, 0) and the direction is that to the
\* origin.  With n neighbors the direction to sum/n is that of sum - n * position.
avgPositionOf(b, neighbors) ==
    LET toward(n) ==
            IF n = 0 THEN getDirectionTo(b.position, Zero)
            ELSE normalize(sub(SumVectors([k \in 1..n |-> neighbors[k].position]),
                               scale(b.position, n)))
    IN  toward(Len(neighbors))

\* Lines 285-286, 315-320: the combined steering vector before it is
\* normalized.  The division by 3 + emitterInfluences.length scales both
\* components by the same positive number: it keeps zero and the direction,
\* and is not carried out on the fixed-point value.
combinedSteering(b, flock) ==
    LET combined(neighbors) ==
            add(add(add(SumVectors(b.emitterInfluences), avgHeadingOf(neighbors)),
                    claustrophobiaOf(b, neighbors)),
                avgPositionOf(b, neighbors))
    IN  combined(neighborsOf(b, flock))

\* The vector calculateNewHeading returns (line 322, 327).
BiodCalculateNewHeading(b, flock) == normalize(combinedSteering(b, flock))

(***************************************************************************)
(* Emitter.prototype.update (637-674).  An emitter is a record             *)
(* [position, strength, radius, functionType, repel].  The program builds  *)
(* "linear" emitters (422, 437, 891) and "exp" emitters (746); no "log"    *)
(* emitter is ever built.                                                  *)
(***************************************************************************)
\* Line 644: distance <= this.radius.
inRange(e, b) == Dist2(b.position, e.position) <= e.radius * e.radius

\* The whole strength at every distance.
influenceUndiminished(e, b) == e.strength

\* Lines 646-665: the strength left at the biod's distance.
influenceStrength(e, b) ==
    LET subAmount ==
            IF e.functionType = "linear"
            THEN Min(e.strength, getDistance(b.position, e.position))
            ELSE IF e.functionType = "exp"
            THEN Max(0, Dist2(b.position, e.position))
            ELSE 0
        floored(strength) == IF strength < 0 THEN 0 ELSE strength
    IN  floored(e.strength - subAmount)

\* Lines 668-671: the vector pushed on the biod's emitterInfluences.
influenceOn(e, b) ==
    IF e.repel
    THEN scale(getDirectionTo(e.position, b.position), influenceStrength(e, b))
    ELSE scale(getDirectionTo(b.position, e.position), influenceStrength(e, b))

\* Emitter.prototype.update(flock): the flock with the influences pushed.
EmitterUpdate(e, flock) ==
    [i \in 1..Len(flock) |->
        IF inRange(e, flock[i])
        THEN [flock[i] EXCEPT !.emitterInfluences = Append(@, influenceOn(e, flock[i]))]
        ELSE flock[i]]

RECURSIVE EmittersUpdate(_, _)
\* The loop of lines 504-505 over this.emitters.
EmittersUpdate(emitters, flock) ==
    IF emitters = <<>> THEN flock
    ELSE EmittersUpdate(Tail(emitters), EmitterUpdate(Head(emitters), flock))

(***************************************************************************)
(* Predator (734-810).  A predator is a record [id, position, heading,     *)
(* emitter]; its emitter is built on the predator's own position object.   *)
(***************************************************************************)
\* Line 763 (and 239): the "in front of us" test on the direction to a point.
inFront(heading, position, point) ==
    cosIsPositive(dot(heading, getDirectionTo(position, point)))

RECURSIVE closestVictim(_, _, _, _, _)
\* The loop of lines 760-770 from index i on: victim is the index found so
\* far (0 for null), d2 the square of distanceToVictim.
closestVictim(p, flock, i, victim, d2) ==
    IF i > Len(flock) THEN victim
    ELSE IF /\ Dist2(flock[i].position, p.position) < d2
            /\ inFront(p.heading, p.position, flock[i].position)
         THEN closestVictim(p, flock, i + 1, i, Dist2(flock[i].position, p.position))
         ELSE closestVictim(p, flock, i + 1, victim, d2)

\* The index of the biod the predator chases, 0 when there is none (756-770).
victimOf(p, flock) ==
    closestVictim(p, flock, 1, 0,
                  (PredatorSightRadius + 1) * (PredatorSightRadius + 1))

\* Predator.prototype.calculateNewHeading(flock) (751-777).
PredatorCalculateNewHeading(p, flock) ==
    IF Len(flock) = 0 THEN p.heading
    ELSE LET toVictim(victim) ==
                 IF victim # 0 THEN getDirectionTo(p.position, flock[victim].position)
                 ELSE p.heading
         IN  toVictim(victimOf(p, flock))

\* The predator turned and moved, its emitter left where the predator was.
PredatorMovedEmitterBehind(p, newHeading) ==
    LET placed(h, pos) == [p EXCEPT !.heading = h, !.position = pos]
        moved(h) ==
            placed(h, movedPosition(p.position, h, PredatorSpeed, sandboxDimensions))
    IN  moved(turnedHeading(p.heading, newHeading, PredatorTurnSpeed))

\* Lines 785-808 of Predator.prototype.move: the predator turned and moved,
\* its emitter on the new position.
PredatorMoved(p, newHeading) ==
    LET placed(h, pos) ==
            [p EXCEPT !.heading = h, !.position = pos, !.emitter.position = pos]
        moved(h) ==
            placed(h, movedPosition(p.position, h, PredatorSpeed, sandboxDimensions))
    IN  moved(turnedHeading(p.heading, newHeading, PredatorTurnSpeed))

(***************************************************************************)
(* Constructors and Flock (170-187, 337-385, 550-575, 628-635, 679-694).   *)
(* A flock object is a record of its six arrays.  A body is a record       *)
(* [biod] (or [emitter]) holding the id of the entity it draws; the SVG    *)
(* elements of the body of entity n are named n in the variable svg.       *)
(***************************************************************************)
Biod(id, position) ==
    [id |-> id, position |-> position, heading |-> <<Unit, 0>>,
     emitterInfluences |-> <<>>]

Emitter(id, position, strength, radius, functionType, repel) ==
    [id |-> id, position |-> position, strength |-> strength, radius |-> radius,
     functionType |-> functionType, repel |-> repel]

Predator(id, position) ==
    [id |-> id, position |-> position, heading |-> <<Unit, 0>>,
     emitter |-> Emitter(0, position, PredatorScariness, PredatorPresence, "exp", TRUE)]

\* new Flock(svg)
Flock ==
    [flock |-> <<>>, bodies |-> <<>>, emitters |-> <<>>, emitterBodies |-> <<>>,
     predators |-> <<>>, predatorBodies |-> <<>>]

addBiod(f, biod) ==
    [f EXCEPT !.flock = Append(@, biod), !.bodies = Append(@, [biod |-> biod.id])]

addPredator(f, predator) ==
    [f EXCEPT !.predators = Append(@, predator),
              !.predatorBodies = Append(@, [biod |-> predator.id])]

addEmitter(f, emitter) ==
    [f EXCEPT !.emitters = Append(@, emitter),
              !.emitterBodies = Append(@, [emitter |-> emitter.id])]

\* The ids of the bodies of a flock object, i.e. the elements Flock.die removes.
BodyIds(f) ==
    {f.bodies[i].biod : i \in 1..Len(f.bodies)}
    \cup {f.emitterBodies[i].emitter : i \in 1..Len(f.emitterBodies)}
    \cup {f.predatorBodies[i].biod : i \in 1..Len(f.predatorBodies)}

\* No body has had die() called on it.
NoDieCalls == [id \in {} |-> 0]

\* The calls of die() per body after one more call on each of the bodies
\* ids (BiodBody.prototype.die 577-581, EmitterBody.prototype.die 696-699).
die(calls, ids) ==
    [id \in DOMAIN calls \cup ids |->
        (IF id \in DOMAIN calls THEN calls[id] ELSE 0) + (IF id \in ids THEN 1 ELSE 0)]

\* BoundedRandom(0, sandboxDims.x), BoundedRandom(0, sandboxDims.y) for the
\* k-th biod of a reset (860): one of the outcomes, chosen by seed.
ResetPosition(seed, k) == <<(seed + 37 * k) % SandboxX, (3 * seed + 53 * k) % SandboxY>>

\* A new flock that is one biod short of numBiods.
resetFlockShort(seed, id0) ==
    [Flock EXCEPT
        !.flock  = [i \in 1..(numBiods - 1) |->
                       Biod(id0 + i - 1, ResetPosition(seed, i))],
        !.bodies = [i \in 1..(numBiods - 1) |-> [biod |-> id0 + i - 1]]]

\* The flock resetSim() builds (844-865): numBiods calls of addBiod on a new
\* Flock, the i-th with a new Biod; ids are taken from id0 upwards.
resetFlock(seed, id0) ==
    [Flock EXCEPT
        !.flock  = [i \in 1..numBiods |-> Biod(id0 + i - 1, ResetPosition(seed, i))],
        !.bodies = [i \in 1..numBiods |-> [biod |-> id0 + i - 1]]]

(***************************************************************************)
(* Bounds of the model and the outcomes drawn for BoundedRandom and for    *)
(* the coordinates of mouse events.                                        *)
(***************************************************************************)
\* Calls of runSimulation in one behaviour.
MaxTicks == 2

\* Mouse and keyboard events in one behaviour.
MaxEvents == 2

KeyP == 80

KeyK == 75

KeyL == 76

KeyB == 66

KeyR == 82

KeyShift == 16

Keys == {KeyP, KeyK, KeyL, KeyB, KeyR, KeyShift}

MousePlaces == {<<100, 100>>, <<2, 300>>}

PredatorSpawns == {<<104, 100>>}

AttractorDraws == {<<3000, 150>>}

RepulsorDraws == {<<1000, 25>>}

BiodOffsets == {<<-10, 4>>}

ResetSeeds == {0}

(***************************************************************************)
(* State.                                                                  *)
(***************************************************************************)
VARIABLES
    g_flock,          \* the flock object g_flock refers to
    oldFlock,         \* the flock object `this` of a running update after a
                      \* reset replaced g_flock in that update (else Flock)
    thisIsOld,        \* TRUE while `this` of the running update is oldFlock
    pc,               \* position in Flock.prototype.update ("idle": not running)
    newPredHeadings,  \* local array of update (515)
    newHeadings,      \* local array of update (527)
    g_mouseEmitter,   \* NullEmitter for null
    g_mouseIsDown,
    g_keysDown,       \* the key codes that are properties of g_keysDown
    g_pIsPressed, g_kIsPressed, g_lIsPressed, g_bIsPressed, g_rIsPressed,
    g_mouseVec,
    cursor,           \* event.x, event.y of the last mouse event
    svg,              \* ids of the bodies whose elements are children of g_svg
    dieCalls,         \* body id -> calls of die() on that body so far
    nextId,           \* ids handed to new objects
    ticks,            \* calls of runSimulation so far
    events            \* input events so far

vars == <<g_flock, oldFlock, thisIsOld, pc, newPredHeadings, newHeadings,
          g_mouseEmitter, g_mouseIsDown, g_keysDown, g_pIsPressed, g_kIsPressed,
          g_lIsPressed, g_bIsPressed, g_rIsPressed, g_mouseVec, cursor, svg,
          dieCalls, nextId, ticks, events>>

inputVars == <<g_mouseEmitter, g_mouseIsDown, g_keysDown, g_mouseVec, cursor>>

pressedVars == <<g_pIsPressed, g_kIsPressed, g_lIsPressed, g_bIsPressed, g_rIsPressed>>

NullEmitter == Emitter(0, Zero, 0, 0, "null", FALSE)

\* The flock object the running update works on.
This == IF thisIsOld THEN oldFlock ELSE g_flock

\* this.<arrays> := f
SetThis(f) ==
    IF thisIsOld THEN oldFlock' = f /\ UNCHANGED g_flock
    ELSE g_flock' = f /\ UNCHANGED oldFlock

(***************************************************************************)
(* Event handlers (887-926).  They run between two updates, never inside.  *)
(***************************************************************************)
\* addEventListener("keydown", ...) (911-916)
KeyDown(k) ==
    /\ pc = "idle" /\ events < MaxEvents
    /\ k \notin g_keysDown
    /\ g_keysDown' = g_keysDown \cup {k}
    /\ events' = events + 1
    /\ UNCHANGED <<g_flock, oldFlock, thisIsOld, pc, newPredHeadings, newHeadings,
                   g_mouseEmitter, g_mouseIsDown, g_mouseVec, cursor, pressedVars,
                   svg, nextId, ticks, dieCalls>>

\* addEventListener("keyup", ...) (921-926)
KeyUp(k) ==
    /\ pc = "idle" /\ events < MaxEvents
    /\ k \in g_keysDown
    /\ g_keysDown' = g_keysDown \ {k}
    /\ events' = events + 1
    /\ UNCHANGED <<g_flock, oldFlock, thisIsOld, pc, newPredHeadings, newHeadings,
                   g_mouseEmitter, g_mouseIsDown, g_mouseVec, cursor, pressedVars,
                   svg, nextId, ticks, dieCalls>>

\* runFromTheMouse(event) (887-892)
MouseDown(at) ==
    /\ pc = "idle" /\ events < MaxEvents
    /\ g_mouseIsDown' = TRUE
    /\ g_mouseEmitter' = Emitter(0, at, MouseStrength, MouseRadius, "linear", TRUE)
    /\ cursor' = at
    /\ events' = events + 1
    /\ UNCHANGED <<g_flock, oldFlock, thisIsOld, pc, newPredHeadings, newHeadings,
                   g_keysDown, g_mouseVec, pressedVars, svg, nextId, ticks, dieCalls>>

\* stopRunFromTheMouse(event) (894-897)
MouseUp ==
    /\ pc = "idle" /\ events < MaxEvents
    /\ g_mouseIsDown' = FALSE
    /\ events' = events + 1
    /\ UNCHANGED <<g_flock, oldFlock, thisIsOld, pc, newPredHeadings, newHeadings,
                   g_mouseEmitter, g_keysDown, g_mouseVec, cursor, pressedVars, svg,
                   nextId, ticks, dieCalls>>

\* updateRunningFromTheMouse(event) (899-905)
MouseMove(at) ==
    /\ pc = "idle" /\ events < MaxEvents
    /\ g_mouseEmitter' = IF g_mouseIsDown THEN [g_mouseEmitter EXCEPT !.position = at]
                         ELSE g_mouseEmitter
    /\ g_mouseVec' = at
    /\ cursor' = at
    /\ events' = events + 1
    /\ UNCHANGED <<g_flock, oldFlock, thisIsOld, pc, newPredHeadings, newHeadings,
                   g_mouseIsDown, g_keysDown, pressedVars, svg, nextId, ticks, dieCalls>>

(***************************************************************************)
(* Flock.prototype.update (396-544), called by runSimulation (871-875) as  *)
(* g_flock.update().  The update runs to its end before any event handler  *)
(* can run; pc walks through its sections in the order of the source.      *)
(***************************************************************************)
\* A key is handled when it is down and was not yet seen down (404, 419, ...).
Fresh(key, isPressed) == key \in g_keysDown /\ ~isPressed

\* Lines 401-473: the keyboard section.  p, k, l and b add to g_flock; r calls
\* resetSim(), which removes the bodies of g_flock from the SVG and makes
\* g_flock a new flock object, while `this` stays the object update was
\* called on.
UpdateInput ==
    /\ pc = "idle" /\ ticks < MaxTicks
    /\ \E spawn \in PredatorSpawns, att \in AttractorDraws, rep \in RepulsorDraws,
          off \in BiodOffsets, seed \in ResetSeeds :
        LET keyR(f, id) ==
                IF Fresh(KeyR, g_rIsPressed)
                THEN /\ g_flock' = resetFlock(seed, id)
                     /\ oldFlock' = f
                     /\ thisIsOld' = TRUE
                     /\ svg' = ((svg \cup (nextId..(id - 1))) \ BodyIds(f))
                                   \cup (id..(id + numBiods - 1))
                     /\ dieCalls' = die(dieCalls, BodyIds(f))
                     /\ nextId' = id + numBiods
                ELSE /\ g_flock' = f
                     /\ svg' = svg \cup (nextId..(id - 1))
                     /\ nextId' = id
                     /\ UNCHANGED <<oldFlock, thisIsOld, dieCalls>>
            keyB(f, id) ==
                IF Fresh(KeyB, g_bIsPressed)
                THEN keyR(addBiod(f, Biod(id, add(g_mouseVec, off))), id + 1)
                ELSE keyR(f, id)
            keyL(f, id) ==
                IF Fresh(KeyL, g_lIsPressed)
                THEN keyB(addEmitter(f, Emitter(id, g_mouseVec, rep[1], rep[2],
                                                "linear", TRUE)), id + 1)
                ELSE keyB(f, id)
            keyK(f, id) ==
                IF Fresh(KeyK, g_kIsPressed)
                THEN keyL(addEmitter(f, Emitter(id, g_mouseVec, att[1], att[2],
                                                "linear", FALSE)), id + 1)
                ELSE keyL(f, id)
            keyP(f, id) ==
                IF Fresh(KeyP, g_pIsPressed)
                THEN keyK(addPredator(f, Predator(id, spawn)), id + 1)
                ELSE keyK(f, id)
        IN  /\ keyP(g_flock, nextId)
            /\ g_pIsPressed' = (KeyP \in g_keysDown)
            /\ g_kIsPressed' = (KeyK \in g_keysDown)
            /\ g_lIsPressed' = (KeyL \in g_keysDown)
            /\ g_bIsPressed' = (KeyB \in g_keysDown)
            /\ g_rIsPressed' = (KeyR \in g_keysDown)
    /\ pc' = "predation"
    /\ ticks' = ticks + 1
    /\ UNCHANGED <<newPredHeadings, newHeadings, inputVars, events>>

\* Line 487: biod b is within eating distance of predator p.
isEatenBy(b, p) ==
    LET reach == Max(BiodRadius, PredatorRadius)
    IN  Dist2(b.position, p.position) < reach * reach

\* The last biod within eating distance of some predator; 0 when there is
\* none.
lastEaten(flock, predators) ==
    LET greatest(eaten) ==
            IF eaten = {} THEN 0 ELSE CHOOSE i \in eaten : \A k \in eaten : i >= k
    IN  greatest({i \in 1..Len(flock) :
                     \E j \in 1..Len(predators) : isEatenBy(flock[i], predators[j])})

\* The index at which the loops of lines 481-500 break: the first biod within
\* eating distance of some predator; 0 when the loops run to their end.
firstEaten(flock, predators) ==
    LET least(eaten) ==
            IF eaten = {} THEN 0 ELSE CHOOSE i \in eaten : \A k \in eaten : i <= k
    IN  least({i \in 1..Len(flock) :
                  \E j \in 1..Len(predators) : isEatenBy(flock[i], predators[j])})

\* array.splice(i, 1)
Splice(s, i) == [k \in 1..(Len(s) - 1) |-> IF k < i THEN s[k] ELSE s[k + 1]]

\* The biod at index i leaves the flock array, and the body at the last index
\* leaves the bodies array.
eatenLastBody(f, i) ==
    [f EXCEPT !.flock = Splice(@, i), !.bodies = Splice(@, Len(f.bodies))]

\* Lines 489 and 491: the biod at index i and the body at index i leave
\* their arrays.
eaten(f, i) == [f EXCEPT !.flock = Splice(@, i), !.bodies = Splice(@, i)]

\* Lines 480-500.  bodies[i].die() is svg.removeChild on the elements of the
\* body (577-581); removeChild throws when the element is not a child, which
\* ends the update after the splice of line 489: the flock object is left
\* with that biod spliced out and its bodies array as it was.
UpdatePredation ==
    /\ pc = "predation"
    /\ LET kill(f, i) ==
               IF i = 0
               THEN /\ pc' = "emitters"
                    /\ UNCHANGED <<g_flock, oldFlock, thisIsOld, svg, dieCalls>>
               ELSE IF f.bodies[i].biod \in svg
               THEN /\ SetThis(eaten(f, i))
                    /\ svg' = svg \ {f.bodies[i].biod}
                    /\ dieCalls' = die(dieCalls, {f.bodies[i].biod})
                    /\ pc' = "emitters"
                    /\ UNCHANGED thisIsOld
               ELSE /\ SetThis([f EXCEPT !.flock = Splice(@, i)])
                    /\ dieCalls' = die(dieCalls, {f.bodies[i].biod})
                    /\ pc' = "idle"
                    /\ thisIsOld' = FALSE
                    /\ UNCHANGED svg
       IN  kill(This, firstEaten(This.flock, This.predators))
    /\ UNCHANGED <<newPredHeadings, newHeadings, inputVars, pressedVars, nextId,
                   ticks, events>>

\* A pointer emitter exists, whether or not the button is down.
mouseEmitterExists == g_mouseEmitter # NullEmitter

\* Line 508: the pointer emitter is applied in this update.
mouseEmitterActive == g_mouseEmitter # NullEmitter /\ g_mouseIsDown

\* Lines 503-512: the emitters of the flock, then the pointer emitter.
UpdateEmitters ==
    /\ pc = "emitters"
    /\ LET pointer(pushed, mouse) ==
               IF mouseEmitterActive
               THEN /\ g_mouseEmitter' = mouse
                    /\ SetThis([This EXCEPT !.flock = EmitterUpdate(mouse, pushed)])
               ELSE /\ SetThis([This EXCEPT !.flock = pushed])
                    /\ UNCHANGED g_mouseEmitter
       IN  pointer(EmittersUpdate(This.emitters, This.flock),
                   [g_mouseEmitter EXCEPT !.repel = (KeyShift \in g_keysDown)])
    /\ pc' = "predatorHeadings"
    /\ UNCHANGED <<thisIsOld, newPredHeadings, newHeadings, g_mouseIsDown, g_keysDown,
                   g_mouseVec, cursor, pressedVars, svg, nextId, ticks, events, dieCalls>>

\* Lines 515-517.
UpdatePredatorHeadings ==
    /\ pc = "predatorHeadings"
    /\ newPredHeadings' = [i \in 1..Len(This.predators) |->
                              PredatorCalculateNewHeading(This.predators[i], This.flock)]
    /\ pc' = "movePredators"
    /\ UNCHANGED <<g_flock, oldFlock, thisIsOld, newHeadings, inputVars, pressedVars,
                   svg, nextId, ticks, events, dieCalls>>

RECURSIVE predatorsMoved(_, _, _)
\* The loop of lines 520-521 from predator i on.  f is the flock object; each
\* predator moves and then applies its emitter to the biods (807-809).
predatorsMoved(f, headings, i) ==
    IF i > Len(f.predators) THEN f
    ELSE LET rest(p) ==
                 predatorsMoved([f EXCEPT !.predators[i] = p,
                                          !.flock = EmitterUpdate(p.emitter, f.flock)],
                                headings, i + 1)
         IN  rest(PredatorMoved(f.predators[i], headings[i]))

MovePredators ==
    /\ pc = "movePredators"
    /\ SetThis(predatorsMoved(This, newPredHeadings, 1))
    /\ pc' = "headings"
    /\ UNCHANGED <<thisIsOld, newPredHeadings, newHeadings, inputVars, pressedVars,
                   svg, nextId, ticks, events, dieCalls>>

\* The flock array when the loop of lines 527-529 reaches biod i: the biods
\* before i have had their emitterInfluences emptied (325), nothing else has
\* changed.
flockAtHeading(flock, i) ==
    [k \in 1..Len(flock) |->
        IF k < i THEN [flock[k] EXCEPT !.emitterInfluences = <<>>] ELSE flock[k]]

\* A pass in which each biod is moved as soon as its heading is computed, so
\* that biod i computes its heading among the moved biods before it.
headingsAfterMoves(flock) ==
    [newHeadings |-> [i \in 1..Len(flock) |->
        BiodCalculateNewHeading(flock[i],
            [k \in 1..Len(flock) |->
                IF k < i
                THEN BiodMove(flock[k], BiodCalculateNewHeading(flock[k], flock))
                ELSE flock[k]])],
     flock |-> flockAtHeading(flock, Len(flock) + 1)]

\* The loop of lines 527-529: newHeadings, and the flock array after it.
headingsPass(flock) ==
    [newHeadings |-> [i \in 1..Len(flock) |->
                         BiodCalculateNewHeading(flock[i], flockAtHeading(flock, i))],
     flock |-> flockAtHeading(flock, Len(flock) + 1)]

UpdateHeadings ==
    /\ pc = "headings"
    /\ LET store(pass) ==
               /\ newHeadings' = pass.newHeadings
               /\ SetThis([This EXCEPT !.flock = pass.flock])
       IN  store(headingsPass(This.flock))
    /\ pc' = "moveBiods"
    /\ UNCHANGED <<thisIsOld, newPredHeadings, inputVars, pressedVars, svg, nextId,
                   ticks, events, dieCalls>>

\* Lines 532-543: the biods move; the bodies copy positions to the SVG, which
\* changes nothing the simulation reads.  The update returns: its locals and
\* `this` are gone.
MoveBiods ==
    /\ pc = "moveBiods"
    /\ IF thisIsOld THEN UNCHANGED g_flock
       ELSE g_flock' = [g_flock EXCEPT !.flock = [i \in 1..Len(g_flock.flock) |->
                                   BiodMove(g_flock.flock[i], newHeadings[i])]]
    /\ oldFlock' = Flock
    /\ thisIsOld' = FALSE
    /\ newPredHeadings' = <<>>
    /\ newHeadings' = <<>>
    /\ pc' = "idle"
    /\ UNCHANGED <<inputVars, pressedVars, svg, nextId, ticks, events, dieCalls>>

(***************************************************************************)
(* Initial states: a swarm some time after Init() (818-833), when biods    *)
(* have moved, turned and been eaten and predators and emitters have been  *)
(* added.  No update is running and no key or button is down.              *)
(***************************************************************************)
\* The initial swarms: <<biods, predators, emitters>>, a biod or predator
\* given as <<position, heading in degrees>>, an emitter as
\* <<position, strength, radius, repel>>.
InitSwarms ==
    { << << <<<<400, 300>>, 0>>, <<<<390, 300>>, 40>> >>, <<>>, <<>> >>,
      << << <<<<105, 100>>, 0>>, <<<<100, 95>>, 270>> >>,
         << <<<<100, 100>>, 0>> >>, <<>> >>,
      << << <<<<300, 100>>, 90>>, <<<<120, 100>>, 180>> >>,
         << <<<<100, 100>>, 0>> >>, << <<<<110, 100>>, 3000, 30, TRUE>> >> >>,
      << << <<<<1, 300>>, 180>> >>, <<>>, << <<<<2, 290>>, 3000, 30, FALSE>> >> >>,
      << << <<<<400, 300>>, 40>>, <<<<350, 300>>, 0>> >>,
         << <<<<700, 500>>, 200>> >>, <<>> >>,
      << << <<<<300, 110>>, 0>> >>, << <<<<100, 100>>, 0>> >>, <<>> >> }

PlacedBiod(id, place) == [Biod(id, place[1]) EXCEPT !.heading = fromDegrees(place[2])]

PlacedPredator(id, place) == [Predator(id, place[1]) EXCEPT !.heading = fromDegrees(place[2])]

PlacedEmitter(id, place) == Emitter(id, place[1], place[2], place[3], "linear", place[4])

RECURSIVE Populate(_, _, _, _, _)
\* The flock object after adding the placed biods, predators and emitters with
\* ids from id on.
Populate(f, biods, predators, emitters, id) ==
    IF biods # <<>>
    THEN Populate(addBiod(f, PlacedBiod(id, Head(biods))), Tail(biods), predators, emitters, id + 1)
    ELSE IF predators # <<>>
    THEN Populate(addPredator(f, PlacedPredator(id, Head(predators))), biods, Tail(predators), emitters, id + 1)
    ELSE IF emitters # <<>>
    THEN Populate(addEmitter(f, PlacedEmitter(id, Head(emitters))), biods, predators, Tail(emitters), id + 1)
    ELSE f

\* The global variables of lines 38-57 other than g_flock.
InitGlobals ==
    /\ g_mouseEmitter = NullEmitter
    /\ g_mouseIsDown = FALSE
    /\ g_keysDown = {}
    /\ g_pIsPressed = FALSE
    /\ g_kIsPressed = FALSE
    /\ g_lIsPressed = FALSE
    /\ g_bIsPressed = FALSE
    /\ g_rIsPressed = FALSE
    /\ g_mouseVec = Zero
    /\ cursor = Zero
    /\ events = 0

\* Everything but the swarm: the state Init() leaves.
InitRest ==
    /\ oldFlock = Flock
    /\ thisIsOld = FALSE
    /\ pc = "idle"
    /\ newPredHeadings = <<>>
    /\ newHeadings = <<>>
    /\ ticks = 0
    /\ dieCalls = NoDieCalls
    /\ InitGlobals

\* Inside the first update, about to run the section named phase.
InUpdate(phase) ==
    /\ oldFlock = Flock
    /\ thisIsOld = FALSE
    /\ pc = phase
    /\ ticks = 1
    /\ dieCalls = NoDieCalls
    /\ InitGlobals

Init ==
    /\ \E swarm \in InitSwarms :
        LET n == Len(swarm[1]) + Len(swarm[2]) + Len(swarm[3])
        IN  /\ g_flock = Populate(Flock, swarm[1], swarm[2], swarm[3], 1)
            /\ svg = 1..n
            /\ nextId = n + 1
    /\ InitRest

Next ==
    \/ \E k \in Keys : KeyDown(k)
    \/ \E k \in Keys : KeyUp(k)
    \/ \E at \in MousePlaces : MouseDown(at)
    \/ MouseUp
    \/ \E at \in MousePlaces : MouseMove(at)
    \/ UpdateInput
    \/ UpdatePredation
    \/ UpdateEmitters
    \/ UpdatePredatorHeadings
    \/ MovePredators
    \/ UpdateHeadings
    \/ MoveBiods

Spec == Init /\ [][Next]_vars

(***************************************************************************)
(* Biod.prototype.move and Predator.prototype.move on their own: update    *)
(* has reached the loop of line 532 (520) with one biod (predator) of any  *)
(* of the current headings, and the new heading is any direction or the    *)
(* zero vector.                                                            *)
(***************************************************************************)
MoveCurrentAngles == {0, 5, 90, 179, 180, 270, 355, 359}

MoveNewHeadings == {fromDegrees(d) : d \in 0..359} \cup {Zero}

MovePlaces == {<<400, 300>>, <<1, 599>>}

InitMove ==
    /\ \E place \in MovePlaces, h \in MoveCurrentAngles, d \in MoveNewHeadings :
        \/ /\ g_flock = Populate(Flock, << <<place, h>> >>, <<>>, <<>>, 1)
           /\ newHeadings = <<d>>
           /\ newPredHeadings = <<>>
           /\ InUpdate("moveBiods")
        \/ /\ g_flock = Populate(Flock, <<>>, << <<place, h>> >>, <<>>, 1)
           /\ newHeadings = <<>>
           /\ newPredHeadings = <<d>>
           /\ InUpdate("movePredators")
    /\ svg = {1}
    /\ nextId = 2

NextMove == MovePredators \/ MoveBiods

SpecMove == InitMove /\ [][NextMove]_vars

(***************************************************************************)
(* Emitter.prototype.update on its own: update has reached line 503 with   *)
(* one "linear" emitter of any of the strengths and radii, attracting or   *)
(* repelling, and two biods on the axes through the emitter, one at        *)
(* distance d to its right and one at distance d + 1 below it.             *)
(***************************************************************************)
EmitStrengths == {50, 20, 5}

EmitRadii == {30, 10}

\* The largest distance d drawn.
MaxEmitDistance == 35

EmitPlace == <<100, 100>>

InitEmit ==
    /\ \E strength \in EmitStrengths, radius \in EmitRadii, repel \in BOOLEAN,
          d \in 0..MaxEmitDistance :
        g_flock = Populate(Flock,
                           << <<add(EmitPlace, <<d, 0>>), 0>>,
                              <<add(EmitPlace, <<0, d + 1>>), 90>> >>,
                           <<>>,
                           << <<EmitPlace, strength, radius, repel>> >>, 1)
    /\ svg = 1..3
    /\ nextId = 4
    /\ newHeadings = <<>>
    /\ newPredHeadings = <<>>
    /\ InUpdate("emitters")

NextEmit == UpdateEmitters

SpecEmit == InitEmit /\ [][NextEmit]_vars

(***************************************************************************)
(* Properties.                                                             *)
(***************************************************************************)
\* The positions and headings of the members of a population, in order.
Poses(population) ==
    [i \in 1..Len(population) |->
        <<population[i].position, population[i].heading>>]

\* C1: in every tick the desired headings of all predators, and then of all
\* biods, are computed from the population as it stands before any member of
\* it moves: the heading computed for member i is the one calculateNewHeading
\* gives on the flock of the start of the pass, whatever i is, and the pass
\* changes no position and no heading.
C1_SnapshotHeadings ==
    [][/\ pc = "predatorHeadings" =>
            /\ newPredHeadings' =
                   [i \in 1..Len(This.predators) |->
                       PredatorCalculateNewHeading(This.predators[i], This.flock)]
            /\ Poses(This'.predators) = Poses(This.predators)
            /\ Poses(This'.flock) = Poses(This.flock)
       /\ pc = "headings" =>
            /\ newHeadings' =
                   [i \in 1..Len(This.flock) |->
                       BiodCalculateNewHeading(This.flock[i], This.flock)]
            /\ Poses(This'.flock) = Poses(This.flock)]_vars

\* C1 witness: the headings of at least two biods have been computed, one of
\* them steered by a neighbor, and no biod has moved yet.
C1_Witness ==
    /\ pc = "moveBiods"
    /\ Len(This.flock) >= 2
    /\ Len(newHeadings) = Len(This.flock)
    /\ \E i \in 1..Len(This.flock) : neighborsOf(This.flock[i], This.flock) # <<>>

\* The ids of the biods of a flock array.
BiodIds(flock) == {flock[i].id : i \in 1..Len(flock)}

\* The ids of the biods within eating distance of some predator.
InReach(f) ==
    {f.flock[i].id : i \in {k \in 1..Len(f.flock) :
        \E j \in 1..Len(f.predators) : isEatenBy(f.flock[k], f.predators[j])}}

\* C2: after the predation phase of a tick no biod that was within eating
\* distance of a predator at the start of the phase is left in the flock,
\* however many biods were in reach.
C2_AllEatenRemoved ==
    [][pc = "predation" /\ pc' = "emitters" =>
           InReach(This) \cap BiodIds(This'.flock) = {}]_vars

\* The position lies in [0, 800) x [0, 600).
InArena(position) ==
    /\ 0 <= position[1] /\ position[1] < sandboxDimensions[1]
    /\ 0 <= position[2] /\ position[2] < sandboxDimensions[2]

\* C3: a biod or predator that is inside the arena before its move is inside
\* the half-open arena [0, 800) x [0, 600) after it: no component is negative
\* and none equals or exceeds the arena's size.
C3_MoveStaysInArena ==
    [][/\ pc = "movePredators" =>
            \A j \in 1..Len(This.predators) :
                InArena(This.predators[j].position)
                    => InArena(This'.predators[j].position)
       /\ pc = "moveBiods" /\ ~thisIsOld =>
            \A i \in 1..Len(g_flock.flock) :
                InArena(g_flock.flock[i].position)
                    => InArena(g_flock'.flock[i].position)]_vars

\* The shorter arc between two angles in degrees.
CircDist(a, b) == Min((a - b) % 360, (b - a) % 360)

\* One move turned the heading from current to after, asked for desired: the
\* turn is at most turnSpeed and it shortens the arc to the desired heading
\* by its full size.
TurnIsCapped(current, desired, after, turnSpeed) ==
    /\ CircDist(toDegrees(current), toDegrees(after)) <= turnSpeed
    /\ CircDist(toDegrees(after), toDegrees(desired)) =
           CircDist(toDegrees(current), toDegrees(desired))
           - Min(turnSpeed, CircDist(toDegrees(current), toDegrees(desired)))

\* C4: in every move of a biod or a predator the heading turns by at most
\* turnSpeed degrees (shorter arc, modulo 360), and the turn is made along the
\* shorter arc from the current to the desired heading.
C4_TurnIsCapped ==
    [][/\ pc = "movePredators" =>
            \A j \in 1..Len(This.predators) :
                TurnIsCapped(This.predators[j].heading, newPredHeadings[j],
                             This'.predators[j].heading, PredatorTurnSpeed)
       /\ pc = "moveBiods" /\ ~thisIsOld =>
            \A i \in 1..Len(g_flock.flock) :
                TurnIsCapped(g_flock.flock[i].heading, newHeadings[i],
                             g_flock'.flock[i].heading, BiodTurnSpeed)]_vars

\* C4 witness: a predator asked to turn from 355 to 90 degrees has moved, and
\* has turned by its turnSpeed across 0/360 to 7 degrees.
C4_Witness ==
    /\ pc = "headings"
    /\ Len(This.predators) = 1
    /\ toDegrees(newPredHeadings[1]) = 90
    /\ toDegrees(This.predators[1].heading) = 7

\* Biod o is in the forward half-plane of biod b: the dot product of b's
\* heading with the direction from b to o is positive.
Ahead(b, o) == TrueDot(b.heading, getDirectionTo(b.position, o.position)) > 0

\* The members of a sequence.
Members(seq) == {seq[k] : k \in 1..Len(seq)}

\* C5: when calculateNewHeading runs, the neighbors of a biod are exactly the
\* other biods within sightRadius that lie in its forward half-plane; a biod
\* beside or behind it (dot product <= 0) is never a neighbor.
C5_NeighborsAreAhead ==
    pc = "headings" =>
        \A i \in 1..Len(This.flock) :
            Members(neighborsOf(This.flock[i], This.flock)) =
                {o \in Members(This.flock) :
                    /\ o.id # This.flock[i].id
                    /\ Dist2(o.position, This.flock[i].position)
                           <= BiodSightRadius * BiodSightRadius
                    /\ Ahead(This.flock[i], o)}

\* The indices of the biods predator p may chase: within sightRadius and in
\* the forward half-plane of p.
Prey(p, flock) ==
    {i \in 1..Len(flock) :
        /\ Dist2(flock[i].position, p.position)
               <= PredatorSightRadius * PredatorSightRadius
        /\ Ahead(p, flock[i])}

\* heading is the direction from p to a nearest of the biods with indices in prey.
TowardNearest(p, flock, prey, heading) ==
    \E i \in prey :
        /\ \A k \in prey : Dist2(flock[i].position, p.position)
                               <= Dist2(flock[k].position, p.position)
        /\ heading = getDirectionTo(p.position, flock[i].position)

\* C6: the heading a predator computes is the direction to the nearest biod
\* among those within sightRadius and in its forward half-plane, so that no
\* biod farther than sightRadius is chased; when there is no such biod it is
\* the current heading, and the move that follows leaves the heading as it is.
C6_ChasesNearestInSight ==
    [][/\ pc = "predatorHeadings" =>
            \A j \in 1..Len(This.predators) :
                IF Prey(This.predators[j], This.flock) = {}
                THEN newPredHeadings'[j] = This.predators[j].heading
                ELSE TowardNearest(This.predators[j], This.flock,
                                   Prey(This.predators[j], This.flock),
                                   newPredHeadings'[j])
       /\ pc = "movePredators" =>
            \A j \in 1..Len(This.predators) :
                Prey(This.predators[j], This.flock) = {}
                    => This'.predators[j].heading = This.predators[j].heading]_vars

\* The number of the emitters that have biod b in range.
InRangeCount(emitters, b) ==
    Cardinality({k \in 1..Len(emitters) : inRange(emitters[k], b)})

\* The pull of the pointer on biod b: toward the cursor, or away from it when
\* Shift is held, with the strength left at b's distance from the cursor.
PointerPull(b, shiftHeld) ==
    scale(IF shiftHeld THEN getDirectionTo(cursor, b.position)
                       ELSE getDirectionTo(b.position, cursor),
          MouseStrength - Min(MouseStrength, getDistance(b.position, cursor)))

\* Biod b has become biod after in the emitters section of a tick: it has
\* got one contribution from each emitter of the flock that has it in range
\* and, exactly when the button is down and b is within the pointer's radius
\* of the cursor, one more, which is the pointer's pull.
PointerApplied(emitters, b, after) ==
    IF g_mouseIsDown /\ Dist2(b.position, cursor) <= MouseRadius * MouseRadius
    THEN /\ Len(after.emitterInfluences) =
                Len(b.emitterInfluences) + InRangeCount(emitters, b) + 1
         /\ after.emitterInfluences[Len(after.emitterInfluences)] =
                PointerPull(b, KeyShift \in g_keysDown)
    ELSE Len(after.emitterInfluences) =
                Len(b.emitterInfluences) + InRangeCount(emitters, b)

\* C7: in every tick the pointer emitter contributes to the biods within its
\* radius of the cursor if and only if the mouse button is down at that tick
\* (so not after a mouseup, until the next mousedown); the contribution pulls
\* toward the cursor when Shift is not held at that tick and pushes away from
\* it when Shift is held.
C7_PointerFollowsButtonAndShift ==
    [][pc = "emitters" =>
           \A i \in 1..Len(This.flock) :
               PointerApplied(This.emitters, This.flock[i], This'.flock[i])]_vars

\* C7 witness: the emitters section has run with the button down and Shift
\* held, and a biod carries the pointer's push away from the cursor.
C7_Witness ==
    /\ pc = "predatorHeadings"
    /\ g_mouseIsDown
    /\ KeyShift \in g_keysDown
    /\ \E i \in 1..Len(This.flock) :
           /\ This.flock[i].emitterInfluences # <<>>
           /\ PointerPull(This.flock[i], TRUE) # Zero
           /\ This.flock[i].emitterInfluences[Len(This.flock[i].emitterInfluences)]
                  = PointerPull(This.flock[i], TRUE)

\* Flock object f holds numBiods biods as their constructor leaves them, each
\* with its body, and nothing else; none of them is an entity of flock
\* object previous.
FreshSwarm(f, previous) ==
    /\ Len(f.flock) = numBiods
    /\ \A i \in 1..Len(f.flock) :
           /\ f.flock[i].heading = <<Unit, 0>>
           /\ f.flock[i].emitterInfluences = <<>>
           /\ InArena(f.flock[i].position)
           /\ \A k \in 1..Len(f.flock) : f.flock[k].id = f.flock[i].id => k = i
    /\ f.bodies = [i \in 1..Len(f.flock) |-> [biod |-> f.flock[i].id]]
    /\ f.predators = <<>>
    /\ f.predatorBodies = <<>>
    /\ f.emitters = <<>>
    /\ f.emitterBodies = <<>>
    /\ BodyIds(f) \cap BodyIds(previous) = {}

\* C8: when the r key makes update call resetSim, g_flock becomes a swarm of
\* exactly numBiods (50) new biods with no predator and no emitter, sharing
\* no entity with the swarm before, whatever that swarm was and whatever the
\* same update added to it; the rest of that update, which works on the
\* swarm before, leaves the new g_flock as it is.
C8_ResetGivesFreshSwarm ==
    [][/\ pc = "idle" /\ pc' = "predation" /\ Fresh(KeyR, g_rIsPressed) =>
            /\ FreshSwarm(g_flock', oldFlock')
            /\ BodyIds(g_flock') \cap BodyIds(g_flock) = {}
            /\ svg' = BodyIds(g_flock')
       /\ thisIsOld => g_flock' = g_flock]_vars

\* C8 witness: resetSim has run inside an update on a swarm that had biods
\* and a predator, and the update is going on.
C8_Witness ==
    /\ thisIsOld
    /\ pc = "emitters"
    /\ oldFlock.predators # <<>>
    /\ oldFlock.flock # <<>>
    /\ Len(g_flock.flock) = numBiods

\* C9: a biod whose combined steering vector is the zero vector keeps its
\* heading: calculateNewHeading returns the zero vector for it, and the move
\* that follows leaves its heading as it was.
C9_ZeroSteeringKeepsHeading ==
    [][/\ pc = "headings" =>
            \A i \in 1..Len(This.flock) :
                combinedSteering(This.flock[i], This.flock) = Zero
                    => newHeadings'[i] = Zero
       /\ pc = "moveBiods" /\ ~thisIsOld =>
            \A i \in 1..Len(g_flock.flock) :
                newHeadings[i] = Zero
                    => g_flock'.flock[i].heading = g_flock.flock[i].heading]_vars

\* The distance of two positions on a common horizontal or vertical line.
AxisDistance(p, q) == Abs(q[1] - p[1]) + Abs(q[2] - p[2])

\* The unit vector from p to q on a common horizontal or vertical line.
AxisDirection(p, q) ==
    <<IF q[1] > p[1] THEN Unit ELSE IF q[1] < p[1] THEN -Unit ELSE 0,
      IF q[2] > p[2] THEN Unit ELSE IF q[2] < p[2] THEN -Unit ELSE 0>>

\* The magnitude of what the emitters section pushed onto biod b, 0 when it
\* pushed nothing (b lies on an axis through the emitter).
Pushed(b) ==
    IF b.emitterInfluences = <<>> THEN 0
    ELSE (Abs(b.emitterInfluences[1][1]) + Abs(b.emitterInfluences[1][2])) \div Unit

\* What is left of strength at distance d: strength - min(strength, d).
LinearLeft(strength, d) == strength - Min(strength, d)

\* C10 as stated: the magnitude pushed by a "linear" emitter strictly
\* decreases as the distance grows from 0 toward radius, is 0 at distance
\* radius and beyond, and is strength - min(strength, d) at distance
\* d <= radius.
C10_StrictlyDecreasingToRadius ==
    pc = "predatorHeadings" =>
        \A e \in Members(This.emitters), b \in Members(This.flock) :
            /\ AxisDistance(e.position, b.position) <= e.radius
                   => Pushed(b) = LinearLeft(e.strength,
                                             AxisDistance(e.position, b.position))
            /\ AxisDistance(e.position, b.position) >= e.radius => Pushed(b) = 0
            /\ \A o \in Members(This.flock) :
                   /\ AxisDistance(e.position, b.position)
                          < AxisDistance(e.position, o.position)
                   /\ AxisDistance(e.position, o.position) <= e.radius
                   => Pushed(b) > Pushed(o)

\* Biod b at distance d from emitter e carries what e.update pushes: nothing
\* beyond the radius; within it one vector, which points away from e when e
\* repels and toward e otherwise and has the length strength - min(strength, d)
\* (the zero vector at distance 0, where there is no direction).
LinearPush(e, b, d) ==
    IF d > e.radius THEN b.emitterInfluences = <<>>
    ELSE b.emitterInfluences =
            << scale(IF e.repel THEN AxisDirection(e.position, b.position)
                                ELSE AxisDirection(b.position, e.position),
                     LinearLeft(e.strength, d)) >>

\* C10, amended: a "linear" emitter pushes nothing onto a biod farther than
\* radius; onto a biod at distance 0 < d <= radius it pushes a vector of
\* magnitude strength - min(strength, d), away from the emitter when repel is
\* set and toward it otherwise, so at d = radius the magnitude is
\* strength - min(strength, radius), which is 0 only when strength <= radius;
\* within the radius the magnitude never grows with the distance, and it
\* strictly decreases as long as the nearer distance is below strength.
C10_LinearFalloff ==
    pc = "predatorHeadings" =>
        \A e \in Members(This.emitters), b \in Members(This.flock) :
            /\ LinearPush(e, b, AxisDistance(e.position, b.position))
            /\ \A o \in Members(This.flock) :
                   /\ 0 < AxisDistance(e.position, b.position)
                   /\ AxisDistance(e.position, b.position)
                          < AxisDistance(e.position, o.position)
                   /\ AxisDistance(e.position, o.position) <= e.radius
                   => /\ Pushed(b) >= Pushed(o)
                      /\ AxisDistance(e.position, b.position) < e.strength
                             => Pushed(b) > Pushed(o)

\* C10 witness: the repelling emitter of strength 50 and radius 30 has pushed
\* 21 onto the biod at distance 29 and 20 onto the biod at distance 30, its
\* radius.
C10_Witness ==
    /\ pc = "predatorHeadings"
    /\ Len(This.emitters) = 1 /\ Len(This.flock) = 2
    /\ This.emitters[1].strength = 50 /\ This.emitters[1].radius = 30
    /\ This.emitters[1].repel
    /\ AxisDistance(This.emitters[1].position, This.flock[1].position) = 29
    /\ Pushed(This.flock[1]) = 21
    /\ AxisDistance(This.emitters[1].position, This.flock[2].position) = 30
    /\ Pushed(This.flock[2]) = 20

\* Every predator of flock object f has its emitter on its own position.
EmitterOnPredator(f) ==
    \A i \in 1..Len(f.predators) :
        f.predators[i].emitter.position = f.predators[i].position

\* No biod of flock object f carries an emitter contribution.
NothingPushed(f) ==
    \A k \in 1..Len(f.flock) : f.flock[k].emitterInfluences = <<>>

\* The push of a predator standing at position at onto biod b: away from the
\* predator, scariness less the squared distance strong.
Scare(at, b) ==
    scale(getDirectionTo(at, b.position),
          Max(0, PredatorScariness - Dist2(b.position, at)))

RECURSIVE Scares(_, _, _)
\* The pushes onto biod b of the predators from index i on, in order, each
\* predator standing where the array predators has it and reaching as far as
\* its presence.
Scares(predators, b, i) ==
    IF i > Len(predators) THEN <<>>
    ELSE (IF Dist2(b.position, predators[i].position)
                 <= PredatorPresence * PredatorPresence
          THEN <<Scare(predators[i].position, b)>>
          ELSE <<>>) \o Scares(predators, b, i + 1)

\* C11: in every tick each predator's emitter is applied from the position
\* the predator has after its move of that tick, before any biod computes its
\* heading: the move of the predators appends to every biod exactly the
\* pushes of the moved predators, the biods then compute their headings with
\* these and keep none for the next tick; the predators' headings are
\* computed from the biods before these move, the biods standing still from
\* the end of the predation scan until their own move, which ends the tick;
\* and a predator's emitter is always on the predator's position.
C11_ScareFromMovedPredators ==
    /\ [](/\ EmitterOnPredator(g_flock) /\ EmitterOnPredator(This)
          /\ pc \in {"idle", "predation", "emitters"} => NothingPushed(This))
    /\ [][/\ pc = "predatorHeadings" =>
                /\ pc' = "movePredators"
                /\ newPredHeadings' =
                       [i \in 1..Len(This.predators) |->
                           PredatorCalculateNewHeading(This.predators[i], This.flock)]
          /\ pc = "movePredators" =>
                /\ pc' = "headings"
                /\ Len(This'.flock) = Len(This.flock)
                /\ \A k \in 1..Len(This.flock) :
                       This'.flock[k].emitterInfluences =
                           This.flock[k].emitterInfluences
                               \o Scares(This'.predators, This.flock[k], 1)
          /\ pc = "headings" =>
                /\ pc' = "moveBiods"
                /\ This'.predators = This.predators
                /\ newHeadings' =
                       [k \in 1..Len(This.flock) |->
                           BiodCalculateNewHeading(This.flock[k], This.flock)]
                /\ NothingPushed(This')
          /\ pc \in {"emitters", "predatorHeadings", "movePredators", "headings"}
                => Poses(This'.flock) = Poses(This.flock)
          /\ pc = "moveBiods" => pc' = "idle"]_vars

\* C11 witness: a biod that was out of reach of the predator's emitter at
\* the predator's position before the move, and is in reach of it at the
\* position after the move, carries the push from the position after the
\* move while the biods are about to compute their headings.
C11_Witness ==
    /\ pc = "headings"
    /\ Len(This.predators) = 1 /\ Len(This.flock) = 1
    /\ Dist2(This.flock[1].position, <<100, 100>>)
           > PredatorPresence * PredatorPresence
    /\ This.predators[1].position # <<100, 100>>
    /\ Scares(This.predators, This.flock[1], 1) # <<>>
    /\ This.flock[1].emitterInfluences = Scares(This.predators, This.flock[1], 1)

\* After a step of the running update: the flock object that update runs on.
ThisAfter == IF thisIsOld THEN oldFlock' ELSE g_flock'

\* The indices of the biods of f within kill distance of a predator of f:
\* nearer than max(biod.radius, predator.radius).
InKillDistance(f) ==
    {i \in 1..Len(f.flock) :
        \E j \in 1..Len(f.predators) :
            Dist2(f.flock[i].position, f.predators[j].position)
                < Max(BiodRadius, PredatorRadius) * Max(BiodRadius, PredatorRadius)}

\* The array without its element at index i.
Without(array, i) ==
    SubSeq(array, 1, i - 1) \o SubSeq(array, i + 1, Len(array))

\* C12: the predation scan of a tick removes at most one biod: with no biod
\* in kill distance of a predator it leaves the flock array as it is; else
\* it removes exactly the biod of the lowest index in kill distance, and the
\* flock is one shorter.  A removed biod is in no flock array from then on,
\* so that no emitter pushes on it and no move moves it: the biods of the
\* flock arrays after any step are biods of the arrays before it or new.
C12_ScanRemovesLowestInReach ==
    [][/\ pc = "predation" =>
            /\ InKillDistance(This) = {} => ThisAfter.flock = This.flock
            /\ InKillDistance(This) # {} =>
                   /\ Len(ThisAfter.flock) = Len(This.flock) - 1
                   /\ \E i \in InKillDistance(This) :
                          /\ \A k \in InKillDistance(This) : i <= k
                          /\ ThisAfter.flock = Without(This.flock, i)
       /\ \A id \in BiodIds(g_flock'.flock) \cup BiodIds(This'.flock) :
              id \in BiodIds(g_flock.flock) \cup BiodIds(This.flock) \/ id >= nextId]_vars

\* C12 witness: two biods were in kill distance of the predator at (100, 100),
\* the one at (105, 100) at index 0 and the one at (100, 95) at index 1; the
\* scan is over and the flock holds just the latter.
C12_Witness ==
    /\ pc = "emitters"
    /\ Len(This.predators) = 1 /\ This.predators[1].position = <<100, 100>>
    /\ Len(This.flock) = 1 /\ This.flock[1].position = <<100, 95>>
    /\ InKillDistance(This) = {1}
    /\ \E id \in DOMAIN dieCalls : dieCalls[id] = 1

\* The flock and bodies arrays of flock object f are parallel: as long as
\* each other, the body at every index being the body of the biod there.
Parallel(f) ==
    /\ Len(f.bodies) = Len(f.flock)
    /\ \A i \in 1..Len(f.flock) : f.bodies[i].biod = f.flock[i].id

\* C13: through addBiod calls and ticks with predation removals the flock and
\* bodies arrays stay parallel, in g_flock and in the flock object a running
\* update works on; when the scan eats a biod, the one body torn down is
\* the body of the biod that left the flock, and every biod left keeps the
\* body it had.
C13_FlockAndBodiesParallel ==
    /\ [](Parallel(g_flock) /\ Parallel(This))
    /\ [][pc = "predation" /\ pc' = "emitters" =>
              /\ svg \ svg' = BiodIds(This.flock) \ BiodIds(This'.flock)
              /\ \A id \in DOMAIN dieCalls' :
                     (id \notin DOMAIN dieCalls \/ dieCalls'[id] # dieCalls[id])
                         => id \in BiodIds(This.flock) \ BiodIds(This'.flock)
              /\ \A k \in 1..Len(This'.flock) :
                     \E i \in 1..Len(This.flock) :
                         /\ This'.flock[k].id = This.flock[i].id
                         /\ This'.bodies[k] = This.bodies[i]]_vars

\* C13 witness: a biod was added with the b key to the swarm of the biods 1
\* and 2 and the predator 3, then the scan ate biod 1: its body is gone, and
\* the biods 2 and 4 are left with their bodies.
C13_Witness ==
    /\ pc = "emitters" /\ ~thisIsOld
    /\ BiodIds(g_flock.flock) = {2, 4}
    /\ g_flock.bodies = <<[biod |-> 2], [biod |-> 4]>>
    /\ 1 \in DOMAIN dieCalls /\ dieCalls[1] = 1
    /\ svg = {2, 3, 4}

\* C14: over any sequence of ticks, key presses, added entities and predation
\* removals, die() is called at most once on each body, also in a tick in
\* which r resets the simulation.
C14_DieAtMostOnce ==
    \A id \in DOMAIN dieCalls : dieCalls[id] <= 1

=============================================================================
